---- MODULE Spec2Model ----
(***************************************************************************)
(* Model of the shuttle database provisioner (provisioner/src/lib.rs) and  *)
(* of the older in-process provisioning state (api/src/database.rs).       *)
(*                                                                         *)
(* Shared provisioning: every request runs shared_role then shared_db     *)
(* against one Postgres server.  Each awaited SQL statement is one atomic  *)
(* step at the server; requests interleave between statements.             *)
(*                                                                         *)
(* Text is modelled as a sequence of tokens.  Fixed pieces of a statement  *)
(* ("CREATE ROLE ", "user-", a generated password) are one token each; the *)
(* characters of a project name and the quote characters are one token     *)
(* each, so that the server parses what format! really produced.           *)
(***************************************************************************)
EXTENDS Integers, Sequences, FiniteSets, TLC

DQ == "\""
SQ == "'"
SEMI == ";"

\* Project names a request may carry: plain ones and ones with a quote or a
\* statement separator.
ProjectNames == { <<"a">>, <<"b">>, <<"a", DQ>>, <<"a", SQ>>, <<"a", SEMI>> }

\* Values generate_password may produce (alphanumeric, so no quote inside).
Passwords == { "pw1", "pw2" }

\* Concurrent request handlers.
Reqs == { "r1", "r2" }

\* Calls started in a run: with concurrent handlers, and one after the other.
MaxCalls == 2
MaxSeqCalls == 3
\* SQL executions that may fail for reasons outside the statement.
MaxSqlFailures == 1

\* Describe calls one managed-instance request may issue in a run.
MaxPolls == 3

PRIVATE_PG_IP == "provisioner"
PUBLIC_PG_IP == "pg.shuttle.rs"
MASTER_USERNAME == "master"

\* aws_rds::Engine and its Display form
Engines == { "postgres", "mysql", "mariadb" }

\* Project names of managed-instance requests.
RdsProjectNames == { <<"a">> }

\* Instance statuses the provider may report.
Statuses == { "creating", "resetting-master-credentials", "available", "failed" }

\* The two implementations: provisioner/src/lib.rs and api/src/database.rs
Impls == { "provisioner", "api" }

VARIABLES
    pg_roles,      \* server catalog: set of [rolname, password]
    pg_database,   \* server catalog: set of [datname, owner]
    shared,        \* per handler: the local state of request_shared_db
    returned,      \* history: what provision_database returned, in order
    calls,         \* number of provision_database calls started
    sqlFailures,   \* number of SQL executions that failed for outside reasons
    instances,     \* cloud provider: instance name -> [exists, status]
    rds,           \* the handler of a managed-instance request: its local state
    api            \* api/src/database.rs: one State object and its request in progress

svars == <<pg_roles, pg_database, shared, returned, calls, sqlFailures, api>>
vars == <<pg_roles, pg_database, shared, returned, calls, sqlFailures, instances, rds, api>>

----------------------------------------------------------------------------
\* Text helpers

Contains(s, c) == \E i \in 1..Len(s) : s[i] = c

\* format!("user-{project_name}")
Username(project_name) == <<"user-">> \o project_name

\* Variant: the database is named with the role's prefix.
DatabaseName_RolePrefix(project_name) == <<"user-">> \o project_name

\* format!("db-{project_name}")
DatabaseName(project_name) == <<"db-">> \o project_name

\* format!("CREATE ROLE \"{username}\" WITH LOGIN PASSWORD '{password}'")
create_role_query(username, password) ==
    <<"CREATE ROLE ", DQ>> \o username \o <<DQ, " WITH LOGIN PASSWORD ", SQ, password, SQ>>

\* format!("ALTER ROLE \"{username}\" WITH LOGIN PASSWORD '{password}'")
update_role_query(username, password) ==
    <<"ALTER ROLE ", DQ>> \o username \o <<DQ, " WITH LOGIN PASSWORD ", SQ, password, SQ>>

\* format!("CREATE DATABASE \"{database_name}\" OWNER '{username}'")
create_db_query(database_name, username) ==
    <<"CREATE DATABASE ", DQ>> \o database_name \o <<DQ, " OWNER ", SQ>> \o username \o <<SQ>>

\* format!("CREATE ROLE \"{}\" PASSWORD '{}' LOGIN", role_name, role_password)
api_create_role_query(role_name, role_password) ==
    <<"CREATE ROLE ", DQ>> \o role_name \o <<DQ, " PASSWORD ", SQ, role_password, SQ, " LOGIN">>

\* format!("ALTER ROLE \"{}\" WITH PASSWORD '{}'", role_name, role_password)
api_alter_password_query(role_name, role_password) ==
    <<"ALTER ROLE ", DQ>> \o role_name \o <<DQ, " WITH PASSWORD ", SQ, role_password, SQ>>

\* format!("CREATE DATABASE \"{}\" OWNER '{}'", database_name, role_name)
api_create_database_query(database_name, role_name) ==
    <<"CREATE DATABASE ", DQ>> \o database_name \o <<DQ, " OWNER ", SQ>> \o role_name \o <<SQ>>

----------------------------------------------------------------------------
\* The SQL server: parsing of a raw statement and its execution.

\* Index of the quote q that closes a quoted token starting at i (a doubled
\* quote is an escaped quote and does not close); 0 when it is never closed.
RECURSIVE ScanQuoted(_, _, _)
ScanQuoted(text, i, q) ==
    IF i > Len(text) THEN 0
    ELSE IF text[i] = q
         THEN IF i < Len(text) /\ text[i + 1] = q
              THEN ScanQuoted(text, i + 2, q)
              ELSE i
         ELSE ScanQuoted(text, i + 1, q)

\* The value of a quoted token: doubled quotes stand for one quote.
RECURSIVE Unescape(_, _)
Unescape(s, q) ==
    IF Len(s) = 0 THEN <<>>
    ELSE IF Len(s) >= 2 /\ s[1] = q /\ s[2] = q
         THEN <<q>> \o Unescape(SubSeq(s, 3, Len(s)), q)
         ELSE <<s[1]>> \o Unescape(SubSeq(s, 2, Len(s)), q)

SyntaxError == [ok |-> FALSE, verb |-> "", ident |-> <<>>, arg |-> <<>>]

\* Keywords that introduce the password of a role statement.
PasswordKeywords == {" WITH LOGIN PASSWORD ", " WITH PASSWORD ", " PASSWORD "}

\* Statements have the shape  VERB "ident" KEYWORD 'arg', and CREATE ROLE
\* may end with the option LOGIN.
ParseStatement(text) ==
    IF Len(text) < 2 \/ text[2] # DQ THEN SyntaxError
    ELSE LET e1 == ScanQuoted(text, 3, DQ) IN
         IF e1 = 0 \/ Len(text) < e1 + 2 THEN SyntaxError
         ELSE LET e2 == ScanQuoted(text, e1 + 3, SQ) IN
              IF \/ text[e1 + 2] # SQ
                 \/ e2 = 0
                 \/ ~ \/ e2 = Len(text)
                      \/ /\ e2 + 1 = Len(text)
                         /\ text[1] = "CREATE ROLE "
                         /\ text[e2 + 1] = " LOGIN"
                 \/ ~ \/ text[1] \in {"CREATE ROLE ", "ALTER ROLE "}
                         /\ text[e1 + 1] \in PasswordKeywords
                      \/ text[1] = "CREATE DATABASE " /\ text[e1 + 1] = " OWNER "
              THEN SyntaxError
              ELSE [ok |-> TRUE,
                    verb |-> text[1],
                    ident |-> Unescape(SubSeq(text, 3, e1 - 1), DQ),
                    arg |-> Unescape(SubSeq(text, e1 + 3, e2 - 1), SQ)]

RoleExists(roles, name) == \E row \in roles : row.rolname = name
DbExists(dbs, name) == \E row \in dbs : row.datname = name

\* Outcome of executing a raw statement: "ok" or the server's error.
ExecOutcome(text, roles, dbs) ==
    LET st == ParseStatement(text) IN
    IF ~st.ok THEN "syntax_error"
    ELSE IF st.verb = "CREATE ROLE "
         THEN IF RoleExists(roles, st.ident) THEN "duplicate_object" ELSE "ok"
    ELSE IF st.verb = "ALTER ROLE "
         THEN IF RoleExists(roles, st.ident) THEN "ok" ELSE "undefined_object"
    ELSE IF DbExists(dbs, st.ident) THEN "duplicate_database"
    ELSE IF RoleExists(roles, st.arg) THEN "ok" ELSE "undefined_object"

\* The role catalog after executing the statement.
ExecRoles(text, roles, dbs) ==
    LET st == ParseStatement(text) IN
    IF ExecOutcome(text, roles, dbs) # "ok" THEN roles
    ELSE IF st.verb = "CREATE ROLE "
         THEN roles \cup {[rolname |-> st.ident, password |-> st.arg]}
    ELSE IF st.verb = "ALTER ROLE "
         THEN {row \in roles : row.rolname # st.ident}
                 \cup {[rolname |-> st.ident, password |-> st.arg]}
    ELSE roles

\* The database catalog after executing the statement.
ExecDbs(text, roles, dbs) ==
    LET st == ParseStatement(text) IN
    IF ExecOutcome(text, roles, dbs) = "ok" /\ st.verb = "CREATE DATABASE "
    THEN dbs \cup {[datname |-> st.ident, owner |-> st.arg]}
    ELSE dbs

----------------------------------------------------------------------------
\* Shared provisioning: request_shared_db = shared_role ; shared_db

Idle ==
    [pc |-> "idle", project_name |-> <<>>, username |-> <<>>, password |-> "",
     database_name |-> <<>>, sql |-> <<>>]

\* Ok(DatabaseResponse { .. }) of request_shared_db
SharedResponse(username, password, database_name) ==
    [ok |-> TRUE,
     engine |-> "postgres",
     username |-> username,
     password |-> password,
     database_name |-> database_name,
     address_private |-> PRIVATE_PG_IP,
     address_public |-> PUBLIC_PG_IP,
     port |-> "3306"]

\* Err(..) as the caller sees it: the variant and the server's message
Failure(kind, detail) == [ok |-> FALSE, error |-> kind, detail |-> detail]

\* Variant: CREATE ROLE whatever the query reported.
RoleBranch_AlwaysCreate(matching_user) == "create_role"

\* Variant: an existing role is left alone, the database step follows at once.
RoleBranch_SkipExisting(matching_user) ==
    IF ~matching_user THEN "create_role" ELSE "select_db"

\* if matching_user.is_none() { CREATE ROLE } else { ALTER ROLE }
RoleBranch(matching_user) == IF ~matching_user THEN "create_role" ELSE "update_role"

\* Variant: CREATE DATABASE whatever the query reported.
DbBranch_AlwaysCreate(matching_db) == "create_db"

\* Variant: the test on matching_db is inverted.
DbBranch_Inverted(matching_db) == IF matching_db THEN "create_db" ELSE "return"

\* if matching_db.is_none() { CREATE DATABASE }
DbBranch(matching_db) == IF ~matching_db THEN "create_db" ELSE "return"

\* The handler hands its result to the caller and is free again.
Return(r, sql, result) ==
    /\ shared' = [shared EXCEPT ![r] = Idle]
    /\ returned' = Append(returned,
                      [project_name |-> shared[r].project_name,
                       sql |-> sql,
                       result |-> result])

\* Outcomes an execution may have for reasons outside the statement (lost
\* connection, pool timeout), while the budget of such failures lasts.
Injected == IF sqlFailures < MaxSqlFailures THEN {"none", "io_error"} ELSE {"none"}

\* provision_database -> request_shared_db -> shared_role, up to the first
\* query: derives the role name and generates the password.
ProvisionShared(r, project_name, password) ==
    /\ shared[r].pc = "idle"
    /\ calls' = calls + 1
    /\ shared' = [shared EXCEPT ![r] =
                    [pc |-> "select_role",
                     project_name |-> project_name,
                     username |-> Username(project_name),
                     password |-> password,
                     database_name |-> <<>>,
                     sql |-> <<>>]]
    /\ UNCHANGED <<pg_roles, pg_database, returned, sqlFailures, instances, rds, api>>

\* SELECT rolname FROM pg_roles WHERE rolname = $1  (bound parameter)
SelectRole(r) ==
    /\ shared[r].pc = "select_role"
    /\ \E inj \in Injected :
         LET sql == Append(shared[r].sql, "SELECT pg_roles") IN
         IF inj = "io_error"
         THEN /\ sqlFailures' = sqlFailures + 1
              /\ Return(r, sql, Failure("Unexpected", inj))
         ELSE /\ shared' = [shared EXCEPT
                    ![r].pc = RoleBranch(RoleExists(pg_roles, shared[r].username)),
                    ![r].sql = sql]
              /\ UNCHANGED <<returned, sqlFailures>>
    /\ UNCHANGED <<pg_roles, pg_database, calls, instances, rds, api>>

\* Executes a role statement; an error is mapped to the given variant.
ExecRoleStatement(r, text, verb, variant) ==
    \E inj \in Injected :
       LET outcome == IF inj = "io_error" THEN inj
                      ELSE ExecOutcome(text, pg_roles, pg_database)
           sql == Append(shared[r].sql, verb)
       IN
       /\ sqlFailures' = IF inj = "io_error" THEN sqlFailures + 1 ELSE sqlFailures
       /\ IF outcome = "ok"
          THEN /\ pg_roles' = ExecRoles(text, pg_roles, pg_database)
               /\ shared' = [shared EXCEPT ![r].pc = "select_db", ![r].sql = sql]
               /\ UNCHANGED returned
          ELSE /\ UNCHANGED pg_roles
               /\ Return(r, sql, Failure(variant, outcome))
       /\ UNCHANGED <<pg_database, calls, instances, rds, api>>

\* CREATE ROLE "{username}" WITH LOGIN PASSWORD '{password}'
CreateRole(r) ==
    /\ shared[r].pc = "create_role"
    /\ ExecRoleStatement(r, create_role_query(shared[r].username, shared[r].password),
                         "CREATE ROLE", "CreateRole")

\* ALTER ROLE "{username}" WITH LOGIN PASSWORD '{password}'
UpdateRole(r) ==
    /\ shared[r].pc = "update_role"
    /\ ExecRoleStatement(r, update_role_query(shared[r].username, shared[r].password),
                         "ALTER ROLE", "UpdateRole")

\* shared_db: SELECT datname FROM pg_database WHERE datname = $1
SelectDb(r) ==
    /\ shared[r].pc = "select_db"
    /\ \E inj \in Injected :
         LET sql == Append(shared[r].sql, "SELECT pg_database")
             database_name == DatabaseName(shared[r].project_name)
             branch == DbBranch(DbExists(pg_database, database_name))
         IN
         IF inj = "io_error"
         THEN /\ sqlFailures' = sqlFailures + 1
              /\ Return(r, sql, Failure("Unexpected", inj))
         ELSE IF branch = "create_db"
         THEN /\ shared' = [shared EXCEPT ![r].pc = "create_db",
                                          ![r].database_name = database_name,
                                          ![r].sql = sql]
              /\ UNCHANGED <<returned, sqlFailures>>
         ELSE /\ Return(r, sql, SharedResponse(shared[r].username, shared[r].password,
                                          database_name))
              /\ UNCHANGED sqlFailures
    /\ UNCHANGED <<pg_roles, pg_database, calls, instances, rds, api>>

\* CREATE DATABASE "{database_name}" OWNER '{username}'
CreateDb(r) ==
    /\ shared[r].pc = "create_db"
    /\ \E inj \in Injected :
         LET text == create_db_query(shared[r].database_name, shared[r].username)
             outcome == IF inj = "io_error" THEN inj
                        ELSE ExecOutcome(text, pg_roles, pg_database)
             sql == Append(shared[r].sql, "CREATE DATABASE")
         IN
         /\ sqlFailures' = IF inj = "io_error" THEN sqlFailures + 1 ELSE sqlFailures
         /\ IF outcome = "ok"
            THEN /\ pg_database' = ExecDbs(text, pg_roles, pg_database)
                 /\ Return(r, sql, SharedResponse(shared[r].username, shared[r].password,
                                             shared[r].database_name))
            ELSE /\ UNCHANGED pg_database
                 /\ Return(r, sql, Failure("CreateDB", outcome))
    /\ UNCHANGED <<pg_roles, calls, instances, rds, api>>

----------------------------------------------------------------------------
\* api/src/database.rs: State::new and State::request

NoInfo == [some |-> FALSE, role_name |-> <<>>, role_password |-> "", database_name |-> <<>>]

\* DatabaseReadyInfo::new(role_name, role_password, database_name)
ReadyInfo(role_name, role_password, database_name) ==
    [some |-> TRUE, role_name |-> role_name, role_password |-> role_password,
     database_name |-> database_name]

\* Ok(info) of State::request
ApiResponse(info) ==
    [ok |-> TRUE, role_name |-> info.role_name, role_password |-> info.role_password,
     database_name |-> info.database_name]

NoState ==
    [pc |-> "none", project |-> <<>>, info |-> NoInfo, role_name |-> <<>>,
     role_password |-> "", database_name |-> <<>>, sql |-> <<>>]

\* The request of the State is over: back to rest, the locals are gone.
ApiRest(info) ==
    [api EXCEPT !.pc = "idle", !.info = info, !.role_name = <<>>, !.role_password = "",
                !.database_name = <<>>, !.sql = <<>>]

ApiReturn(info, sql, result) ==
    /\ api' = ApiRest(info)
    /\ returned' = Append(returned,
                      [project_name |-> api.project, sql |-> sql, result |-> result])

\* State::new(project, context)
ApiNew(project) ==
    /\ api.pc \in {"none", "idle"}
    /\ api' = [NoState EXCEPT !.pc = "idle", !.project = project]
    /\ UNCHANGED <<pg_roles, pg_database, shared, returned, calls, sqlFailures,
                   instances, rds>>

\* if self.info.is_some() { return Ok(self.info.clone().unwrap()); }
Cached(info) == info.some

\* State::request up to the first query: the cached info, or the names and a
\* new password.
ApiRequest(role_password) ==
    /\ api.pc = "idle"
    /\ calls' = calls + 1
    /\ IF Cached(api.info)
       THEN ApiReturn(api.info, <<>>, ApiResponse(api.info))
       ELSE /\ api' = [api EXCEPT !.pc = "select_role",
                                  !.role_name = Username(api.project),
                                  !.role_password = role_password,
                                  !.database_name = DatabaseName(api.project)]
            /\ UNCHANGED returned
    /\ UNCHANGED <<pg_roles, pg_database, shared, sqlFailures, instances, rds>>

\* SELECT * FROM pg_roles WHERE rolname = $1 ; if rows.is_empty() ..
ApiSelectRole ==
    /\ api.pc = "select_role"
    /\ \E inj \in Injected :
         LET sql == Append(api.sql, "SELECT pg_roles") IN
         IF inj = "io_error"
         THEN /\ sqlFailures' = sqlFailures + 1
              /\ ApiReturn(api.info, sql, Failure("sqlx", inj))
         ELSE /\ api' = [api EXCEPT
                    !.pc = IF ~RoleExists(pg_roles, api.role_name)
                           THEN "create_role" ELSE "alter_role",
                    !.sql = sql]
              /\ UNCHANGED <<returned, sqlFailures>>
    /\ UNCHANGED <<pg_roles, pg_database, shared, calls, instances, rds>>

\* sqlx::query(&..).execute(pool).await? of a role statement
ApiExecRoleStatement(text, verb) ==
    \E inj \in Injected :
       LET outcome == IF inj = "io_error" THEN inj
                      ELSE ExecOutcome(text, pg_roles, pg_database)
           sql == Append(api.sql, verb)
       IN
       /\ sqlFailures' = IF inj = "io_error" THEN sqlFailures + 1 ELSE sqlFailures
       /\ IF outcome = "ok"
          THEN /\ pg_roles' = ExecRoles(text, pg_roles, pg_database)
               /\ api' = [api EXCEPT !.pc = "select_db", !.sql = sql]
               /\ UNCHANGED returned
          ELSE /\ UNCHANGED pg_roles
               /\ ApiReturn(api.info, sql, Failure("sqlx", outcome))
       /\ UNCHANGED <<pg_database, shared, calls, instances, rds>>

\* CREATE ROLE "{}" PASSWORD '{}' LOGIN
ApiCreateRole ==
    /\ api.pc = "create_role"
    /\ ApiExecRoleStatement(api_create_role_query(api.role_name, api.role_password),
                            "CREATE ROLE")

\* ALTER ROLE "{}" WITH PASSWORD '{}'
ApiAlterRole ==
    /\ api.pc = "alter_role"
    /\ ApiExecRoleStatement(api_alter_password_query(api.role_name, api.role_password),
                            "ALTER ROLE")

\* SELECT 1 FROM pg_database WHERE datname = $1 ; if database.is_empty() ..
\* else: the info is stored and returned.
ApiSelectDb ==
    /\ api.pc = "select_db"
    /\ \E inj \in Injected :
         LET sql == Append(api.sql, "SELECT pg_database")
             info == ReadyInfo(api.role_name, api.role_password, api.database_name)
         IN
         IF inj = "io_error"
         THEN /\ sqlFailures' = sqlFailures + 1
              /\ ApiReturn(api.info, sql, Failure("sqlx", inj))
         ELSE IF ~DbExists(pg_database, api.database_name)
         THEN /\ api' = [api EXCEPT !.pc = "create_db", !.sql = sql]
              /\ UNCHANGED <<returned, sqlFailures>>
         ELSE /\ ApiReturn(info, sql, ApiResponse(info))
              /\ UNCHANGED sqlFailures
    /\ UNCHANGED <<pg_roles, pg_database, shared, calls, instances, rds>>

\* CREATE DATABASE "{}" OWNER '{}' ; the info is stored and returned.
ApiCreateDb ==
    /\ api.pc = "create_db"
    /\ \E inj \in Injected :
         LET text == api_create_database_query(api.database_name, api.role_name)
             outcome == IF inj = "io_error" THEN inj
                        ELSE ExecOutcome(text, pg_roles, pg_database)
             sql == Append(api.sql, "CREATE DATABASE")
             info == ReadyInfo(api.role_name, api.role_password, api.database_name)
         IN
         /\ sqlFailures' = IF inj = "io_error" THEN sqlFailures + 1 ELSE sqlFailures
         /\ IF outcome = "ok"
            THEN /\ pg_database' = ExecDbs(text, pg_roles, pg_database)
                 /\ ApiReturn(info, sql, ApiResponse(info))
            ELSE /\ UNCHANGED pg_database
                 /\ ApiReturn(api.info, sql, Failure("sqlx", outcome))
    /\ UNCHANGED <<pg_roles, shared, calls, instances, rds>>

ApiCall ==
    /\ calls < MaxCalls
    /\ \E pw \in Passwords : ApiRequest(pw)

\* The projects of the deployments that own a State.
ApiProjectNames == {<<"a">>, <<"b">>, <<"a", SQ>>}

ApiNext ==
    \/ \E p \in ApiProjectNames : ApiNew(p)
    \/ ApiCall
    \/ ApiSelectRole
    \/ ApiCreateRole
    \/ ApiAlterRole
    \/ ApiSelectDb
    \/ ApiCreateDb

SharedInit ==
    /\ pg_roles = {}
    /\ pg_database = {}
    /\ shared = [r \in Reqs |-> Idle]
    /\ returned = <<>>
    /\ calls = 0
    /\ sqlFailures = 0
    /\ api = NoState

SharedStep(r) ==
    \/ SelectRole(r)
    \/ CreateRole(r)
    \/ UpdateRole(r)
    \/ SelectDb(r)
    \/ CreateDb(r)

\* Requests are served concurrently.
SharedCall ==
    /\ calls < MaxCalls
    /\ \E r \in Reqs, p \in ProjectNames, pw \in Passwords : ProvisionShared(r, p, pw)

SharedNext == SharedCall \/ \E r \in Reqs : SharedStep(r)


\* Requests are served one after the other: a call starts only when no other
\* call is in progress.
SeqCall ==
    /\ calls < MaxSeqCalls
    /\ \A r \in Reqs : shared[r].pc = "idle"
    /\ \E p \in ProjectNames, pw \in Passwords : ProvisionShared("r1", p, pw)

SeqNext == SeqCall \/ \E r \in Reqs : SharedStep(r)

----------------------------------------------------------------------------
\* Managed instances: request_aws_rds (provisioner) and State::aws_rds (api)

\* format!("{}-{}", project_name, engine)
InstanceName(project_name, engine) == project_name \o <<"-", engine>>

InstanceNames == { InstanceName(p, e) : p \in RdsProjectNames, e \in Engines }

\* Variant: MySQL is given the Postgres port.
engine_to_port_MysqlAsPostgres(engine) ==
    CASE engine = "postgres" -> "5432"
      [] engine = "mariadb" -> "3306"
      [] engine = "mysql" -> "5432"

\* match engine { Postgres => "5432", Mariadb => "3306", Mysql => "3306" }
engine_to_port(engine) ==
    CASE engine = "postgres" -> "5432"
      [] engine = "mariadb" -> "3306"
      [] engine = "mysql" -> "3306"

RdsIdle ==
    [pc |-> "idle", impl |-> "", engine |-> "", password |-> "", instance_name |-> <<>>,
     wait_for |-> "", polls |-> 0, trace |-> <<>>,
     result |-> [ok |-> FALSE, error |-> "", detail |-> ""]]

\* One provider call as the handler saw it: what came back, and the field the
\* handler found missing in it ("nothing" when it found all it looked for).
Seen(op, outcome, missing) == [op |-> op, outcome |-> outcome, missing |-> missing]

Describes(trace) == SelectSeq(trace, LAMBDA e : e.op = "describe")

\* Ok(DatabaseResponse { .. }) of request_aws_rds
RdsResponse(engine, password) ==
    [ok |-> TRUE,
     engine |-> engine,
     username |-> MASTER_USERNAME,
     password |-> password,
     database_name |-> engine,
     address_private |-> "endpoint-address",
     address_public |-> "endpoint-address",
     port |-> engine_to_port(engine)]

\* Ok(conn_string) of State::aws_rds
ConnString(password) ==
    [ok |-> TRUE,
     conn_string |-> <<"postgres://", MASTER_USERNAME, ":", password, "@",
                       "endpoint-address", "/", "postgres">>]

\* The handler returns; its result stays visible until the next request.
RdsReturn(trace, result) ==
    rds' = [rds EXCEPT !.pc = "returned", !.trace = trace, !.result = result]

\* An expect()/unwrap() on None: the handler panics.
RdsPanic(trace, message) ==
    rds' = [rds EXCEPT !.pc = "panicked", !.trace = trace,
                       !.result = [ok |-> FALSE, error |-> "panic", detail |-> message]]

\* provision_database -> request_aws_rds, or State::aws_rds, up to the
\* modify call: generates the password and derives the instance name.
ProvisionRds(impl, project_name, engine, password) ==
    /\ rds.pc \in {"idle", "returned", "panicked"}
    /\ impl = "api" => engine = "postgres"
    /\ rds' = [RdsIdle EXCEPT !.pc = "modify",
                              !.impl = impl,
                              !.engine = engine,
                              !.password = password,
                              !.instance_name = InstanceName(project_name, engine)]
    /\ UNCHANGED <<instances, svars>>

\* What modify_db_instance may answer for an instance.
ModifyOutcomes(inst) ==
    IF inst.exists THEN {"ok", "ok_no_instance", "service_error", "sdk_error"}
    ELSE {"not_found", "service_error", "sdk_error"}

\* Variant: every service error of the modify call is taken for "not found".
AfterModify_AnyServiceError(outcome) ==
    CASE outcome \in {"ok", "ok_no_instance"} -> "wait"
      [] outcome \in {"not_found", "service_error"} -> "create"
      [] OTHER -> "return_error"

\* match instance { Ok(_) => .., Err(ServiceError) => if NotFound {..} else {..},
\*                  Err(unexpected) => .. }
AfterModify(outcome) ==
    CASE outcome \in {"ok", "ok_no_instance"} -> "wait"
      [] outcome = "not_found" -> "create"
      [] OTHER -> "return_error"

\* The status awaited first after a successful modify.
ModifyWaitFor(impl) ==
    IF impl = "provisioner" THEN "resetting-master-credentials" ELSE "available"

\* client.modify_db_instance()...send().await and the match on its result
Modify ==
    /\ rds.pc = "modify"
    /\ \E outcome \in ModifyOutcomes(instances[rds.instance_name]) :
         LET next == AfterModify(outcome) IN
         IF next = "wait"
         THEN IF rds.impl = "api" /\ outcome = "ok_no_instance"
              THEN RdsPanic(Append(rds.trace, Seen("modify", "ok", "db_instance")),
                            "unwrap on None")
              ELSE rds' = [rds EXCEPT !.pc = "wait",
                                      !.wait_for = ModifyWaitFor(rds.impl),
                                      !.trace = Append(@, Seen("modify", "ok", "nothing"))]
         ELSE IF next = "create"
         THEN rds' = [rds EXCEPT !.pc = "create",
                                 !.trace = Append(@, Seen("modify", outcome, "nothing"))]
         ELSE RdsReturn(Append(rds.trace, Seen("modify", outcome, "nothing")),
                        Failure("Plain", outcome))
    /\ UNCHANGED <<instances, svars>>

\* What create_db_instance may answer for an instance.
CreateOutcomes(inst) ==
    IF inst.exists THEN {"already_exists", "sdk_error"}
    ELSE {"ok", "ok_no_instance", "sdk_error"}

\* The status awaited first after a successful create.
CreateWaitFor(impl) == IF impl = "provisioner" THEN "creating" ELSE "available"

\* Variant: the error of the create call is dropped and the wait begins.
AfterCreate_ErrorIgnored(outcome) == "wait"

\* .send().await? : an error of the create call is returned at once
AfterCreate(outcome) ==
    IF outcome \in {"ok", "ok_no_instance"} THEN "wait" ELSE "return_error"

\* client.create_db_instance()...send().await?.db_instance.expect(..)
Create ==
    /\ rds.pc = "create"
    /\ \E outcome \in CreateOutcomes(instances[rds.instance_name]) :
         /\ instances' = IF outcome \in {"ok", "ok_no_instance"}
                         THEN [instances EXCEPT ![rds.instance_name] =
                                  [exists |-> TRUE, status |-> "creating"]]
                         ELSE instances
         /\ IF AfterCreate(outcome) = "return_error"
            THEN RdsReturn(Append(rds.trace, Seen("create", outcome, "nothing")),
                           Failure("Sdk", outcome))
            ELSE IF outcome = "ok_no_instance"
            THEN RdsPanic(Append(rds.trace, Seen("create", "ok", "db_instance")),
                          IF rds.impl = "provisioner"
                          THEN "to be able to create instance" ELSE "unwrap on None")
            ELSE rds' = [rds EXCEPT !.pc = "wait",
                                    !.wait_for = CreateWaitFor(rds.impl),
                                    !.trace = Append(@, Seen("create", outcome, "nothing"))]
    /\ UNCHANGED svars

\* Parts a describe response may lack.
Missing ==
    { "nothing", "db_instances", "first", "db_instance_status", "endpoint", "address",
      "master_username", "db_name" }

\* What describe_db_instances may answer for an instance.
DescribeResponses(inst) ==
    IF ~inst.exists THEN { [error |-> TRUE, missing |-> "nothing", status |-> ""] }
    ELSE { [error |-> TRUE, missing |-> "nothing", status |-> ""] }
           \cup { [error |-> FALSE, missing |-> m, status |-> inst.status] : m \in Missing }

\* Variant: the first status read ends the wait.
Reached_AnyStatus(status, wait_for) == status \in Statuses

\* if status == wait_for { return Ok(instance); }
Reached(status, wait_for) == status = wait_for

\* The status to await after the awaited one was seen; "" when the instance
\* is the one to read the connection data from.
NextWaitFor(impl, wait_for) ==
    IF impl = "provisioner" /\ wait_for # "available" THEN "available" ELSE ""

\* The expect()/unwrap() that fails on the final instance; "" when none does.
FinalPanic(impl, missing) ==
    CASE missing = "endpoint" ->
            IF impl = "provisioner" THEN "instance to have an endpoint" ELSE "unwrap on None"
      [] missing = "address" ->
            IF impl = "provisioner" THEN "endpoint to have an address" ELSE "unwrap on None"
      [] missing = "master_username" ->
            IF impl = "provisioner" THEN "instance to have a username" ELSE "unwrap on None"
      [] missing = "db_name" ->
            IF impl = "provisioner" THEN "instance to have a default database" ELSE ""
      [] OTHER -> ""

\* The expect()/unwrap() that fails while reading the status; "" when none does.
PollPanic(impl, missing) ==
    CASE missing = "db_instances" ->
            IF impl = "provisioner" THEN "aws to return instances" ELSE "unwrap on None"
      [] missing = "first" ->
            IF impl = "provisioner"
            THEN "to find the instance just created or modified" ELSE "unwrap on None"
      [] missing = "db_instance_status" ->
            IF impl = "provisioner" THEN "instance to have a status" ELSE "unwrap on None"
      [] OTHER -> ""

\* The count of loop iterations survived, kept modulo 2: it tells one
\* iteration of the loop from the next.
Slept(polls) == (polls + 1) % 2

\* The trace with one more entry, when the call keeps its trace.
Noted(trace, entry, record) == IF record THEN Append(trace, entry) ELSE trace

\* One iteration of the loop of wait_for_instance (in the api: of the loop in
\* State::aws_rds): describe, compare the status, sleep or go on; after the
\* last wait, the assembly of the result.
DescribeStep(record) ==
    /\ rds.pc = "wait"
    /\ \E resp \in DescribeResponses(instances[rds.instance_name]) :
         IF resp.error
         THEN RdsReturn(Noted(rds.trace, Seen("describe", "error", "nothing"), record),
                        Failure("Sdk", "describe_error"))
         ELSE IF PollPanic(rds.impl, resp.missing) # ""
         THEN RdsPanic(Noted(rds.trace, Seen("describe", "malformed", resp.missing), record),
                       PollPanic(rds.impl, resp.missing))
         ELSE IF ~Reached(resp.status, rds.wait_for)
         THEN rds' = [rds EXCEPT
                        !.polls = Slept(@),
                        !.trace = Noted(@, Seen("describe", resp.status, "nothing"), record)]
         ELSE IF NextWaitFor(rds.impl, rds.wait_for) # ""
         THEN rds' = [rds EXCEPT
                        !.wait_for = NextWaitFor(rds.impl, rds.wait_for),
                        !.polls = Slept(@),
                        !.trace = Noted(@, Seen("describe", resp.status, "nothing"), record)]
         ELSE IF FinalPanic(rds.impl, resp.missing) # ""
         THEN RdsPanic(Noted(rds.trace, Seen("describe", resp.status, resp.missing), record),
                       FinalPanic(rds.impl, resp.missing))
         ELSE RdsReturn(Noted(rds.trace, Seen("describe", resp.status, "nothing"), record),
                        IF rds.impl = "provisioner"
                        THEN RdsResponse(rds.engine, rds.password)
                        ELSE ConnString(rds.password))
    /\ UNCHANGED <<instances, svars>>

\* A poll whose response is kept in the trace; the trace holds MaxPolls of them.
Describe ==
    /\ Len(Describes(rds.trace)) < MaxPolls
    /\ DescribeStep(TRUE)

\* A poll that leaves the trace alone, so that a request can poll without end.
Poll == DescribeStep(FALSE)

\* The provider moves an instance to another status on its own.
ProviderStep ==
    /\ \E n \in InstanceNames, s \in Statuses :
         /\ instances[n].exists
         /\ instances[n].status # s
         /\ instances' = [instances EXCEPT ![n].status = s]
    /\ UNCHANGED <<rds, svars>>

RdsInit ==
    /\ instances = [n \in InstanceNames |-> [exists |-> FALSE, status |-> ""]]
    /\ rds = RdsIdle

RdsCall ==
    \E impl \in Impls, p \in RdsProjectNames, e \in Engines, pw \in Passwords :
       ProvisionRds(impl, p, e, pw)

RdsNext ==
    \/ RdsCall
    \/ Modify
    \/ Create
    \/ Describe
    \/ ProviderStep

----------------------------------------------------------------------------
Init == SharedInit /\ RdsInit

SpecRds == Init /\ [][RdsNext]_vars

\* Managed-instance requests that poll without end.  The runtime keeps
\* running a handler that can take a step (each await completes, each sleep
\* ends); nothing is assumed of the provider or of the arrival of requests.
RdsLiveNext ==
    \/ RdsCall
    \/ Modify
    \/ Create
    \/ Poll
    \/ ProviderStep

SpecRdsLive ==
    Init /\ [][RdsLiveNext]_vars /\ WF_vars(Modify) /\ WF_vars(Create) /\ WF_vars(Poll)

SpecShared == Init /\ [][SharedNext]_vars

SpecSharedSeq == Init /\ [][SeqNext]_vars

\* Both implementations of shared provisioning at work on one server: a
\* request of the provisioner and a request of the api, interleaved.
ProvisionerCall ==
    /\ calls < MaxCalls
    /\ \E p \in ApiProjectNames, pw \in Passwords : ProvisionShared("r1", p, pw)

SharedApiNext == ProvisionerCall \/ SharedStep("r1") \/ ApiNext

SpecSharedApi == Init /\ [][SharedApiNext]_vars

----------------------------------------------------------------------------
\* Properties

Unsafe(name) == Contains(name, DQ) \/ Contains(name, SQ) \/ Contains(name, SEMI)

RolesNamed(p) == {row \in pg_roles : row.rolname = <<"user-">> \o p}
DatabasesNamed(p) == {row \in pg_database : row.datname = <<"db-">> \o p}

\* Calls for project p that returned successfully.
Succeeded(p) ==
    {i \in DOMAIN returned : returned[i].project_name = p /\ returned[i].result.ok}

\* C1: a request whose project name contains a quote or a semicolon issues no
\* SQL statement and is answered with the InvalidProjectName error.
C1_UnsafeNameRejectedBeforeSql ==
    /\ \A r \in Reqs : Unsafe(shared[r].project_name) => shared[r].sql = <<>>
    /\ \A i \in DOMAIN returned :
         Unsafe(returned[i].project_name) =>
            /\ returned[i].sql = <<>>
            /\ ~returned[i].result.ok
            /\ returned[i].result.error = "InvalidProjectName"

\* C2: a duplicate-creation error of the server is never returned as a
\* CreateRole or CreateDB failure, and two concurrent calls for one new
\* project, with no other SQL failure, both return success and leave exactly
\* one role and one database.
C2_ConcurrentNewProjectBothSucceed ==
    /\ \A i \in DOMAIN returned :
         (/\ ~returned[i].result.ok
          /\ returned[i].result.detail \in {"duplicate_object", "duplicate_database"})
         => returned[i].result.error \notin {"CreateRole", "CreateDB"}
    /\ \A p \in ProjectNames :
         (/\ ~Unsafe(p)
          /\ sqlFailures = 0
          /\ Len(returned) = 2
          /\ \A i \in DOMAIN returned : returned[i].project_name = p)
         => /\ \A i \in DOMAIN returned : returned[i].result.ok
            /\ Cardinality(RolesNamed(p)) = 1
            /\ Cardinality(DatabasesNamed(p)) = 1

\* C3: once a call for a project has returned successfully, and after any
\* number of further sequential calls, exactly one role user-<project> and
\* exactly one database db-<project> exist.
C3_OneRoleOneDatabase ==
    \A p \in ProjectNames :
       Succeeded(p) # {} =>
          /\ Cardinality(RolesNamed(p)) = 1
          /\ Cardinality(DatabasesNamed(p)) = 1

\* C3 witness: two sequential calls for one project have succeeded.
C3_TwoCallsSucceeded ==
    \E p \in ProjectNames :
       /\ Cardinality(Succeeded(p)) >= 2
       /\ Cardinality(RolesNamed(p)) = 1
       /\ Cardinality(DatabasesNamed(p)) = 1

\* C4: at the step in which a shared call returns successfully, the role
\* exists with the returned password as its login password and the database
\* exists.
C4_ReturnedCredentialsUsable ==
    [][ Len(returned') > Len(returned) =>
          LET e == returned'[Len(returned')] IN
          e.result.ok =>
             /\ \E row \in pg_roles' :
                   /\ row.rolname = <<"user-">> \o e.project_name
                   /\ row.password = <<e.result.password>>
             /\ \E row \in pg_database' : row.datname = <<"db-">> \o e.project_name
      ]_vars

\* The describe entries of the handler's trace.
Polls == Describes(rds.trace)

\* The handler took the create path: modify answered not-found, create succeeded.
OnCreatePath ==
    /\ Len(rds.trace) >= 2
    /\ rds.trace[1] = Seen("modify", "not_found", "nothing")
    /\ rds.trace[2] = Seen("create", "ok", "nothing")

\* The polls so far saw 'creating' n times and 'available' from then on, at
\* least once, in complete responses.
CreatingThenAvailable(n) ==
    /\ Len(Polls) >= n + 1
    /\ \A k \in 1..Len(Polls) :
         /\ Polls[k].missing = "nothing"
         /\ Polls[k].outcome = IF k <= n THEN "creating" ELSE "available"

ConventionalPort(engine) == IF engine = "postgres" THEN "5432" ELSE "3306"

\* C5: on the create path, with a provider that reports 'creating' for N polls
\* and then 'available', request_aws_rds has issued one create and N+1
\* describe calls and has returned a result with the engine's port, for
\* every N >= 0.
C5_CreateThenNPlusOnePolls ==
    \A n \in 0..MaxPolls :
       (rds.impl = "provisioner" /\ OnCreatePath /\ CreatingThenAvailable(n)) =>
          /\ Len(Polls) = n + 1
          /\ Len(SelectSeq(rds.trace, LAMBDA e : e.op = "create")) = 1
          /\ rds.pc = "returned"
          /\ rds.result.ok
          /\ rds.result.port = ConventionalPort(rds.engine)

\* C6: once a describe response reported the status 'failed', request_aws_rds
\* has returned an error and issues no further describe call.
C6_FailedStatusEndsPolling ==
    rds.impl = "provisioner" =>
       \A k \in 1..Len(Polls) :
          Polls[k].outcome = "failed" =>
             /\ k = Len(Polls)
             /\ rds.pc = "returned"
             /\ ~rds.result.ok

\* C7: the first provider call of a request is the modify call; a create call
\* is issued only as the second call, after a modify that answered
\* not-found (so at most once, and never after a successful modify); and the
\* not-found answer is never the error the caller gets.
C7_ModifyFirstCreateOnlyOnNotFound ==
    /\ rds.pc \notin {"idle", "modify"} => Len(rds.trace) >= 1
    /\ Len(rds.trace) >= 1 => rds.trace[1].op = "modify"
    /\ \A k \in 1..Len(rds.trace) :
         /\ rds.trace[k].op = "modify" => k = 1
         /\ rds.trace[k].op = "create" =>
               k = 2 /\ rds.trace[1] = Seen("modify", "not_found", "nothing")
    /\ (rds.pc = "returned" /\ ~rds.result.ok) => rds.result.detail # "not_found"

\* C7 witness: a request has returned a result after modify answered
\* not-found and the instance was created.
C7_CreatedAfterNotFound ==
    /\ OnCreatePath
    /\ rds.pc = "returned"
    /\ rds.result.ok

FatalModifyErrors == {"service_error", "sdk_error"}
CreateErrors == {"already_exists", "sdk_error"}

\* C8: when the modify call failed with an error other than not-found, or the
\* create call failed, the request has returned an error and the failed call
\* is the last provider call it issued.
C8_ProviderErrorEndsRequest ==
    \A k \in 1..Len(rds.trace) :
       (\/ rds.trace[k].op = "modify" /\ rds.trace[k].outcome \in FatalModifyErrors
        \/ rds.trace[k].op = "create" /\ rds.trace[k].outcome \in CreateErrors)
       => /\ k = Len(rds.trace)
          /\ rds.pc = "returned"
          /\ ~rds.result.ok

\* C8 witness: the create call failed after modify answered not-found.
C8_CreateFailed ==
    /\ Len(rds.trace) = 2
    /\ rds.trace[1].outcome = "not_found"
    /\ rds.trace[2].op = "create"
    /\ rds.trace[2].outcome \in CreateErrors
    /\ rds.pc = "returned"

RequiredFields == {"db_instance_status", "endpoint", "address", "master_username"}

\* C9: when a successful describe response lacks the status, or the final one
\* lacks the endpoint, its address or the master username, request_aws_rds
\* has returned the MalformedProviderResponse error; it has not panicked.
C9_MalformedResponseIsAnError ==
    rds.impl = "provisioner" =>
       \A k \in 1..Len(Polls) :
          Polls[k].missing \in RequiredFields =>
             /\ rds.pc = "returned"
             /\ ~rds.result.ok
             /\ rds.result.error = "MalformedProviderResponse"

\* Entries i < j of the history are successive successful calls for one project.
Successive(i, j) ==
    /\ i < j
    /\ returned[i].project_name = returned[j].project_name
    /\ returned[i].result.ok
    /\ returned[j].result.ok
    /\ \A k \in (i + 1)..(j - 1) :
          ~(returned[k].project_name = returned[i].project_name /\ returned[k].result.ok)

C11_EngineToPortIsTheTable ==
    /\ rds.pc # "idle" => rds.engine \in Engines
    /\ rds.engine = "postgres" => engine_to_port(rds.engine) = "5432"
    /\ rds.engine = "mysql" => engine_to_port(rds.engine) = "3306"
    /\ rds.engine = "mariadb" => engine_to_port(rds.engine) = "3306"
    /\ Engines = {"postgres", "mysql", "mariadb"}

\* C11 witness: a MySQL request has returned its result, port 3306.
C11_MysqlRequestReturned ==
    /\ rds.impl = "provisioner"
    /\ rds.engine = "mysql"
    /\ rds.pc = "returned"
    /\ rds.result.ok
    /\ rds.result.port = "3306"

\* The instance of the request in progress exists and is 'available'.
InstanceAvailable ==
    /\ rds.pc # "idle"
    /\ instances[rds.instance_name].exists
    /\ instances[rds.instance_name].status = "available"

\* No provider call of the request has failed or come back malformed.
NoProviderFailure ==
    /\ rds.pc # "panicked"
    /\ rds.pc = "returned" => rds.result.ok

\* C12: if no provider call fails and the instance is, from some time on,
\* 'available' for good, every request_aws_rds in progress returns a result.
C12_AvailableInstanceIsReturned ==
    (<>[]InstanceAvailable /\ []NoProviderFailure)
       => ((rds.impl = "provisioner" /\ rds.pc \in {"modify", "create", "wait"})
              ~> (rds.pc = "returned" /\ rds.result.ok))

\* The role statements among the statements a call issued.
RoleStatements(sql) == {k \in DOMAIN sql : sql[k] \in {"CREATE ROLE", "ALTER ROLE"}}

\* C13: every call that returned a successful result issued, after its
\* role-existence query, exactly one role statement (CREATE ROLE or ALTER
\* ROLE); no successful result comes from a call that skipped it.
C13_EverySuccessIssuedOneRoleStatement ==
    \A i \in DOMAIN returned :
       returned[i].result.ok =>
          /\ Cardinality(RoleStatements(returned[i].sql)) = 1
          /\ \A k \in RoleStatements(returned[i].sql) :
                k = 2 /\ returned[i].sql[1] = "SELECT pg_roles"

\* Calls for project p that returned successfully after a CREATE DATABASE.
CreatedDatabase(p) ==
    {i \in Succeeded(p) : \E k \in DOMAIN returned[i].sql :
                             returned[i].sql[k] = "CREATE DATABASE"}

\* C14: a handler whose database query reports db-<project> present does not
\* go on to CREATE DATABASE; no step removes a database, changes its owner or
\* adds a second one of its name; and at most one call per project returned
\* after a successful CREATE DATABASE.
C14_ExistingDatabaseUntouched ==
    [][/\ pg_database \subseteq pg_database'
       /\ \A row \in pg_database' \ pg_database : ~DbExists(pg_database, row.datname)
       /\ \A r \in Reqs :
            (/\ shared[r].pc = "select_db"
             /\ DbExists(pg_database, DatabaseName(shared[r].project_name)))
            => shared'[r].pc # "create_db"
       /\ (api.pc = "select_db" /\ DbExists(pg_database, api.database_name))
            => api'.pc # "create_db"
       /\ \A p \in ProjectNames : Cardinality(CreatedDatabase(p)) <= 1]_vars

\* C14 witness: the database of a project exists, one call returned after
\* creating it and another returned successfully after finding it present.
C14_FoundPresentAndReturned ==
    \E p \in ProjectNames :
       /\ Cardinality(DatabasesNamed(p)) = 1
       /\ Cardinality(CreatedDatabase(p)) = 1
       /\ \E i \in Succeeded(p) :
            /\ i \notin CreatedDatabase(p)
            /\ Len(returned[i].sql) = 3
            /\ returned[i].sql[3] = "SELECT pg_database"

\* The statements of the database step among the statements a call issued.
DbStatements(sql) ==
    {k \in DOMAIN sql : sql[k] \in {"SELECT pg_database", "CREATE DATABASE"}}

\* In a call's statements, the database step comes after a role query and a
\* role statement that both succeeded.
RoleStepFirst(sql) ==
    \A k \in DbStatements(sql) :
       /\ k > 2
       /\ sql[1] = "SELECT pg_roles"
       /\ 2 \in RoleStatements(sql)

\* C15: in request_shared_db the database step begins only after the role
\* step has succeeded, a call whose role step failed issued no database
\* statement, and every existing database db-<project> is owned by the
\* existing role user-<project>.
C15_RoleBeforeDatabase ==
    /\ \A r \in Reqs : RoleStepFirst(shared[r].sql)
    /\ \A i \in DOMAIN returned :
         /\ RoleStepFirst(returned[i].sql)
         /\ (~returned[i].result.ok
               /\ returned[i].result.error \in {"CreateRole", "UpdateRole"})
            => DbStatements(returned[i].sql) = {}
    /\ \A p \in ProjectNames :
         \A row \in DatabasesNamed(p) :
            /\ row.owner = Username(p)
            /\ RoleExists(pg_roles, row.owner)

\* C15 witness: one call failed in its role statement, and the database of a
\* project exists, owned by the project's role.
C15_RoleStepFailedAndDatabaseOwned ==
    /\ \E i \in DOMAIN returned :
         /\ ~returned[i].result.ok
         /\ returned[i].result.error \in {"CreateRole", "UpdateRole"}
         /\ Len(returned[i].sql) = 2
    /\ \E p \in ProjectNames :
         \E row \in DatabasesNamed(p) : row.owner = Username(p)

\* Calls that failed after their CREATE ROLE had succeeded.
FailedAfterCreateRole ==
    {i \in DOMAIN returned : /\ ~returned[i].result.ok
                             /\ Len(returned[i].sql) >= 3
                             /\ returned[i].sql[2] = "CREATE ROLE"}

\* The statements of a call in the order shared_role and shared_db issue them.
StatementOrder == <<"SELECT pg_roles", "CREATE ROLE", "SELECT pg_database", "CREATE DATABASE">>

\* C16: a call that failed after its CREATE ROLE succeeded issued nothing
\* after the failing statement and the role it created stays; a later
\* sequential call for the same project fails only if one of its own
\* statements is cut short or malformed, never on what the failed call left
\* behind, and when it succeeds the project has one role and one database.
C16_PartialCompletionThenRetry ==
    \A i \in FailedAfterCreateRole :
       /\ returned[i].sql = SubSeq(StatementOrder, 1, Len(returned[i].sql))
       /\ Cardinality(RolesNamed(returned[i].project_name)) = 1
       /\ \A j \in DOMAIN returned :
            (j > i /\ returned[j].project_name = returned[i].project_name) =>
               IF returned[j].result.ok
               THEN Cardinality(DatabasesNamed(returned[j].project_name)) = 1
               ELSE returned[j].result.detail \in {"io_error", "syntax_error"}

\* C16 witness: a call failed after creating the role, and a later call for
\* the same project succeeded, leaving one role and one database.
C16_RetrySucceeded ==
    \E i \in FailedAfterCreateRole :
       \E j \in DOMAIN returned :
          /\ j > i
          /\ returned[j].project_name = returned[i].project_name
          /\ returned[j].result.ok
          /\ Cardinality(RolesNamed(returned[j].project_name)) = 1
          /\ Cardinality(DatabasesNamed(returned[j].project_name)) = 1

\* The last provider call the request in progress has seen.
LastSeen == rds.trace[Len(rds.trace)]

C18_PortMatchesEngine ==
    /\ \A i \in DOMAIN returned :
         returned[i].result.ok =>
            returned[i].result.port = ConventionalPort(returned[i].result.engine)
    /\ (rds.impl = "provisioner" /\ rds.pc = "returned" /\ rds.result.ok)
         => rds.result.port = ConventionalPort(rds.result.engine)

====
